---- MODULE Spec2Model ----
(***************************************************************************)
(* A model of src/proxy/server.py: the phrase model, the two word sources  *)
(* (Watchout4SnakesSource, VerachellSource), render_phrase, make_response  *)
(* and the cooperative scheduling of the request handlers.                 *)
(*                                                                         *)
(* A string is a sequence of characters (one-character TLA+ strings), so   *)
(* that str.strip, str.split and str.title are computed, not assumed.      *)
(* A template is the sequence of its literal pieces and "{}" fields; a     *)
(* rendered string is the sequence of its segments, each one a string.     *)
(***************************************************************************)
EXTENDS Integers, Sequences, FiniteSets, TLC

VARIABLES tasks, running, open_files, stream

vars == <<tasks, running, open_files, stream>>

(***************************************************************************)
(* Bounds of the model.                                                    *)
(***************************************************************************)
MaxTasks == 2
MaxLines == 3
MaxTokens == 3

(***************************************************************************)
(* Characters: the classes str.title, str.strip and str.split consult.     *)
(***************************************************************************)
LowerLetters == <<"a","b","c","d","e","f","g","h","i","j","k","l","m",
                  "n","o","p","q","r","s","t","u","v","w","x","y","z">>
UpperLetters == <<"A","B","C","D","E","F","G","H","I","J","K","L","M",
                  "N","O","P","Q","R","S","T","U","V","W","X","Y","Z">>

\* U+01F0 LATIN SMALL LETTER J WITH CARON: lowercase, with the two-character
\* title-case mapping <<J, U+030C COMBINING CARON>>; the combining mark is
\* not a cased character.
JCaron == "U+01F0"
CombiningCaron == "U+030C"

IsLower(c) == \E k \in 1..Len(LowerLetters) : LowerLetters[k] = c
IsUpper(c) == \E k \in 1..Len(UpperLetters) : UpperLetters[k] = c
LetterIndex(c, letters) == CHOOSE k \in 1..Len(letters) : letters[k] = c

IsCased(c) == IsLower(c) \/ IsUpper(c) \/ c = JCaron
IsSpace(c) == c \in {" ", "\n", "\t", "\r"}

ToLower(c) == IF IsUpper(c) THEN <<LowerLetters[LetterIndex(c, UpperLetters)]>>
              ELSE <<c>>
ToTitleFull(c) == IF IsLower(c) THEN <<UpperLetters[LetterIndex(c, LowerLetters)]>>
                  ELSE IF c = JCaron THEN <<"J", CombiningCaron>>
                  ELSE <<c>>

RECURSIVE TitleFrom(_, _, _)
TitleFrom(s, k, previous_is_cased) ==
    IF k > Len(s) THEN <<>>
    ELSE (IF previous_is_cased THEN ToLower(s[k]) ELSE ToTitleFull(s[k]))
         \o TitleFrom(s, k + 1, IsCased(s[k]))

\* str.title(): a cased character is title-cased when the character before
\* it is not cased, and lower-cased otherwise.
title(s) == TitleFrom(s, 1, FALSE)

RECURSIVE LStrip(_)
LStrip(s) == IF s # <<>> /\ IsSpace(Head(s)) THEN LStrip(Tail(s)) ELSE s

RECURSIVE RStrip(_)
RStrip(s) == IF s # <<>> /\ IsSpace(s[Len(s)])
             THEN RStrip(SubSeq(s, 1, Len(s) - 1)) ELSE s

\* str.strip(): leading and trailing whitespace removed.
strip(s) == RStrip(LStrip(s))

RECURSIVE SplitFrom(_, _, _)
SplitFrom(s, k, cur) ==
    IF k > Len(s) THEN (IF cur = <<>> THEN <<>> ELSE <<cur>>)
    ELSE IF IsSpace(s[k])
         THEN (IF cur = <<>> THEN <<>> ELSE <<cur>>) \o SplitFrom(s, k + 1, <<>>)
         ELSE SplitFrom(s, k + 1, Append(cur, s[k]))

\* str.split(): the maximal runs of non-whitespace characters.
split(s) == SplitFrom(s, 1, <<>>)

(***************************************************************************)
(* The phrase model.                                                       *)
(***************************************************************************)
NOUN == "n"
ADJECTIVE == "a"
VERB_TRANSITIVE == "t"
VERB_INTRANSITIVE == "i"
ADVERB == "e"
INTERJECTION == "z"
PREPOSITION == "s"

PartOfSpeech == {NOUN, ADJECTIVE, VERB_TRANSITIVE, VERB_INTRANSITIVE,
                 ADVERB, INTERJECTION, PREPOSITION}

VERY_COMMON == 10
COMMON == 20
AVERAGE == 35
SOMEWHAT_UNCOMMON == 50
UNCOMMON == 60
VERY_UNCOMMON == 70
OBSCURE == 95

PhrasePart(pos, obscurity, title_flag) ==
    [pos |-> pos, obscurity |-> obscurity, title |-> title_flag]

Phrase(parts, template) == [parts |-> parts, template |-> template]

Field == "{}"


RECURSIVE FormatFrom(_, _, _, _)
FormatFrom(template, args, k, auto) ==
    IF k > Len(template) THEN [err |-> "none", val |-> <<>>]
    ELSE IF template[k] = Field
         THEN IF auto + 1 > Len(args)
              THEN [err |-> "IndexError", val |-> <<>>]
              ELSE LET rest == FormatFrom(template, args, k + 1, auto + 1)
                   IN  IF rest.err # "none" THEN rest
                       ELSE [err |-> "none", val |-> <<args[auto + 1]>> \o rest.val]
         ELSE LET rest == FormatFrom(template, args, k + 1, auto)
              IN  IF rest.err # "none" THEN rest
                  ELSE [err |-> "none", val |-> <<(<<template[k]>>)>> \o rest.val]

\* Phrase.render: template.format(*words). The k-th "{}" field takes the
\* k-th argument; a field with no argument raises IndexError; arguments
\* beyond the last field are ignored by str.format.
render(phrase, words) == FormatFrom(phrase.template, words, 1, 0)

SPELL == Phrase(<<PhrasePart(VERB_TRANSITIVE, AVERAGE, TRUE),
                  PhrasePart(NOUN, AVERAGE, TRUE)>>,
                <<"I cast ", Field, " ", Field, ".">>)

REACTION == Phrase(<<PhrasePart(INTERJECTION, AVERAGE, TRUE)>>,
                   <<Field, "!">>)

MINIBOSS == Phrase(<<PhrasePart(ADJECTIVE, AVERAGE, TRUE),
                     PhrasePart(NOUN, AVERAGE, TRUE)>>,
                   <<"You encounter the ", Field, " ", Field,
                     "! What would you like to do?">>)

BOSS == Phrase(<<PhrasePart(ADJECTIVE, AVERAGE, TRUE),
                 PhrasePart(ADJECTIVE, AVERAGE, TRUE),
                 PhrasePart(NOUN, AVERAGE, TRUE)>>,
               <<"You've found the ", Field, " ", Field, " ", Field,
                 "! What would you like to do?">>)

BBEG == Phrase(<<PhrasePart(ADJECTIVE, AVERAGE, TRUE),
                 PhrasePart(NOUN, AVERAGE, TRUE),
                 PhrasePart(PREPOSITION, VERY_COMMON, FALSE),
                 PhrasePart(NOUN, AVERAGE, TRUE)>>,
               <<"Finally, you've found the ", Field, " ", Field, " ", Field,
                 " ", Field, "! What would you like to do?">>)

\* The routes of the application: GET /spell, /reaction, /miniboss, /boss, /bbeg.
Routes == [spell |-> SPELL, reaction |-> REACTION, miniboss |-> MINIBOSS,
           boss |-> BOSS, bbeg |-> BBEG]

(***************************************************************************)
(* Phrases a caller of render_phrase may build besides the five constants: *)
(* Phrase is a public dataclass and nothing checks a template against its  *)
(* parts when a Phrase is constructed.                                     *)
(***************************************************************************)
SPELL_OBSCURE == Phrase(<<PhrasePart(VERB_TRANSITIVE, OBSCURE, TRUE),
                          PhrasePart(NOUN, VERY_COMMON, TRUE)>>,
                        <<"I cast ", Field, " ", Field, ".">>)

MORE_SLOTS == Phrase(<<PhrasePart(ADJECTIVE, AVERAGE, TRUE)>>,
                     <<Field, ", ", Field, "!">>)

FEWER_SLOTS == Phrase(<<PhrasePart(ADJECTIVE, AVERAGE, TRUE),
                        PhrasePart(ADVERB, COMMON, FALSE)>>,
                      <<Field, "!">>)

CallerPhrases == {SPELL_OBSCURE, MORE_SLOTS, FEWER_SLOTS}

RoutePhrases == {Routes[r] : r \in DOMAIN Routes}

(***************************************************************************)
(* The word sources.                                                       *)
(***************************************************************************)
VerachellSource == "VerachellSource"
Watchout4SnakesSource == "Watchout4SnakesSource"
WordSources == {VerachellSource, Watchout4SnakesSource}

\* word_source = VerachellSource(): the source make_response is bound to.
word_source == VerachellSource

\* VerachellSource.FILES: the candidate files of each part of speech,
\* relative to BASE_PATH.
FILES ==
    [pos \in PartOfSpeech |->
       CASE pos = NOUN -> <<"nouns/mostly-nouns-ment.txt",
                            "nouns/mostly-nouns.txt",
                            "nouns/mostly-plural-nouns.txt">>
         [] pos = ADJECTIVE -> <<"other-categories/mostly-adjectives.txt">>
         [] pos = VERB_TRANSITIVE -> <<"verbs/transitive-past-tense.txt",
                                       "verbs/transitive-present-tense.txt">>
         [] pos = VERB_INTRANSITIVE -> <<"verbs/mostly-verbs-infinitive.txt",
                                         "verbs/mostly-verbs-past-tense.txt",
                                         "verbs/mostly-verbs-present-tense.txt">>
         [] pos = ADVERB -> <<"other-categories/ly-adverbs.txt",
                              "other-categories/mostly-adverbs.txt">>
         [] pos = INTERJECTION -> <<"other-categories/mostly-interjections.txt">>
         [] pos = PREPOSITION -> <<"other-categories/mostly-prepositions.txt">>]

(***************************************************************************)
(* The environment: the word-list files on disk. A file is the sequence of *)
(* its lines, each with its line terminator (the last line may have none). *)
(* One file is empty, one is missing, one holds MaxLines lines, and one    *)
(* holds a word outside ASCII.                                             *)
(***************************************************************************)
InterjectionPool == <<<<"w","o","w","\n">>, <<"o","u","c","h","\n">>, <<"u","h","-","o","h","\n">>, <<"y","a","y","\n">>, <<"h","m","\n">>>>

Disk ==
    ("nouns/mostly-nouns-ment.txt" :> <<<<JCaron, "a", "\n">>>>)
 @@ ("nouns/mostly-nouns.txt" :> <<<<"d","r","a","g","o","n","\n">>>>)
 @@ ("nouns/mostly-plural-nouns.txt" :> <<>>)
 @@ ("other-categories/mostly-adjectives.txt" :> <<<<"s","l","i","m","y","\n">>>>)
 @@ ("verbs/transitive-past-tense.txt" :> <<<<" ","c","a","s","t","\r","\n">>>>)
 @@ ("verbs/transitive-present-tense.txt" :> <<<<"e","a","t","s","\n">>, <<"e","a","t">>>>)
 @@ ("verbs/mostly-verbs-infinitive.txt" :> <<<<"r","u","n","\n">>>>)
 @@ ("verbs/mostly-verbs-past-tense.txt" :> <<<<"r","a","n","\n">>>>)
 @@ ("verbs/mostly-verbs-present-tense.txt" :> <<<<"r","u","n","s","\n">>>>)
 @@ ("other-categories/ly-adverbs.txt" :> <<<<"s","l","o","w","l","y","\n">>>>)
 @@ ("other-categories/mostly-interjections.txt" :>
        SubSeq(InterjectionPool, 1, MaxLines))
 @@ ("other-categories/mostly-prepositions.txt" :> <<<<"o","'","e","r","\n">>>>)

\* The bodies the remote service may answer with: m words of a fixed pool,
\* each preceded by a blank, and a final line terminator.
TokenPool == <<<<"c","a","s","t">>, <<"M","c","D","u","c","k">>, <<"o","'","e","r">>, <<"d","r","a","g","o","n">>, <<"w","o","w">>>>

RECURSIVE RemoteBody(_)
RemoteBody(m) == IF m = 0 THEN <<"\n">>
                 ELSE <<" ">> \o TokenPool[m] \o RemoteBody(m - 1)

RemoteBodies == {RemoteBody(m) : m \in 0..MaxTokens}


(***************************************************************************)
(* VerachellSource.                                                        *)
(***************************************************************************)
\* The draws random_line takes on a file of n lines: one for each line
\* k = 2..n, random.randrange(k), a number of 0..k-1.
DrawSeqs(n) ==
    IF n <= 1 THEN {<<>>}
    ELSE {d \in [1..(n - 1) -> 0..(n - 1)] : \A k \in 1..(n - 1) : d[k] <= k}

NumDraws(n) == IF n <= 1 THEN 0 ELSE n - 1

\* A variant of the loop of random_line with its test inverted.
RECURSIVE RandomLineFromInverted(_, _, _, _)
RandomLineFromInverted(lines, d, num, chosen_line) ==
    IF num > Len(lines) THEN chosen_line
    ELSE RandomLineFromInverted(lines, d, num + 1,
                                IF d[num - 1] = 0 THEN chosen_line ELSE lines[num])

RECURSIVE RandomLineFrom(_, _, _, _)
RandomLineFrom(lines, d, num, chosen_line) ==
    IF num > Len(lines) THEN chosen_line
    ELSE RandomLineFrom(lines, d, num + 1,
                        IF d[num - 1] # 0 THEN chosen_line ELSE lines[num])

\* A variant of random_line that reads the first line with a default,
\* next(file, ""), so that an empty file yields an empty line.
random_line_default(lines, d) ==
    IF lines = <<>> THEN [exc |-> "none", line |-> <<>>]
    ELSE [exc |-> "none", line |-> RandomLineFrom(lines, d, 2, lines[1])]

\* random_line: next(file) raises StopIteration on a file with no lines;
\* otherwise line num (num >= 2) replaces the chosen line when
\* random.randrange(num) is 0.
random_line(lines, d) ==
    IF lines = <<>> THEN [exc |-> "StopIteration", line |-> <<>>]
    ELSE [exc |-> "none", line |-> RandomLineFrom(lines, d, 2, lines[1])]

\* random_file: random.choice(self.FILES[pos]), c the index it draws.
random_file(pos, c) == FILES[pos][c + 1]

\* A variant of the body of get_word that leaves the rarest words as they
\* are in the file.
get_word_body_by_obscurity(part, lines, d) ==
    LET chosen == random_line(lines, d)
        word == strip(chosen.line)
    IN  IF chosen.exc # "none" THEN [exc |-> chosen.exc, word |-> <<>>]
        ELSE [exc |-> "none",
              word |-> IF part.title /\ part.obscurity < OBSCURE
                       THEN title(word) ELSE word]

\* The body of get_word's with block, on the lines of the opened file.
get_word_body(part, lines, d) ==
    LET chosen == random_line(lines, d)
        word == strip(chosen.line)
    IN  IF chosen.exc # "none" THEN [exc |-> chosen.exc, word |-> <<>>]
        ELSE [exc |-> "none", word |-> IF part.title THEN title(word) ELSE word]

\* A variant of random_file without the with statement: the file is closed
\* only when the block returns.
random_file_exit_leaky(files, handle, exc) ==
    IF exc = "none" THEN files \ {handle} ELSE files

\* Leaving random_file's with block closes the file, whether the block
\* returned or raised.
random_file_exit(files, handle, exc) == files \ {handle}

\* get_word as a function of the draws it takes from the generator:
\* the file choice, then the draws of random_line. used counts them.
get_word(part, draws) ==
    IF Len(FILES[part.pos]) = 0
    THEN [exc |-> "IndexError", word |-> <<>>, used |-> 0]
    ELSE LET path == random_file(part.pos, draws[1])
         IN  IF path \notin DOMAIN Disk
             THEN [exc |-> "FileNotFoundError", word |-> <<>>, used |-> 1]
             ELSE LET lines == Disk[path]
                      k == NumDraws(Len(lines))
                      got == get_word_body(part, lines, SubSeq(draws, 2, 1 + k))
                  IN  [exc |-> got.exc, word |-> got.word,
                       used |-> IF got.exc = "none" THEN 1 + k ELSE 1]

\* A StopIteration that leaves a coroutine is raised as RuntimeError.
CoroutineError(exc) == IF exc = "StopIteration" THEN "RuntimeError" ELSE exc

RECURSIVE get_words(_, _)
get_words(parts, draws) ==
    IF parts = <<>> THEN [exc |-> "none", words |-> <<>>]
    ELSE LET first == get_word(Head(parts), draws)
         IN  IF first.exc # "none"
             THEN [exc |-> CoroutineError(first.exc), words |-> <<>>]
             ELSE LET rest == get_words(Tail(parts),
                                        SubSeq(draws, first.used + 1, Len(draws)))
                  IN  IF rest.exc # "none" THEN rest
                      ELSE [exc |-> "none", words |-> <<first.word>> \o rest.words]

(***************************************************************************)
(* Watchout4SnakesSource.                                                  *)
(***************************************************************************)
\* form_data: Pos{i+1} and Level{i+1} of every part.
form_data(parts) ==
    [k \in 1..Len(parts) |-> [Pos |-> parts[k].pos, Level |-> parts[k].obscurity]]

\* return body.split(): the words are the tokens of the body, however many.
remote_words(body) == split(body)

(***************************************************************************)
(* render_phrase and make_response.                                        *)
(***************************************************************************)
Min(a, b) == IF a < b THEN a ELSE b

\* A variant of the casing pass that ignores the title flag of the parts.
cased_words_always(parts, words) ==
    [k \in 1..Min(Len(parts), Len(words)) |-> title(words[k])]

\* zip(phrase.parts, words) stops at the shorter of the two.
cased_words(parts, words) ==
    [k \in 1..Min(Len(parts), Len(words)) |->
        IF parts[k].title THEN title(words[k]) ELSE words[k]]

NoResult == [ok |-> FALSE, phrase |-> <<>>, words |-> <<>>]

render_phrase(phrase, words) ==
    LET rendered == render(phrase, cased_words(phrase.parts, words))
    IN  IF rendered.err # "none"
        THEN [exc |-> rendered.err, result |-> NoResult]
        ELSE [exc |-> "none",
              result |-> [ok |-> TRUE, phrase |-> rendered.val, words |-> words]]

NoPhrase == Phrase(<<>>, <<>>)
NoResponse == [sent |-> FALSE, phrase |-> <<>>, words |-> <<>>, config |-> NoPhrase]

make_response(phrase, result) ==
    [sent |-> TRUE, phrase |-> result.phrase, words |-> result.words,
     config |-> phrase]


(***************************************************************************)
(* The state. tasks[t] is one invocation of render_phrase, made by         *)
(* make_response for a route (route # "none") or by another caller with a  *)
(* phrase and a source of its own. running is the task the event loop is   *)
(* executing (0: none). open_files is the set of open word-list files.     *)
(* stream lists, for each draw taken from the shared random generator, the *)
(* task that took it.                                                      *)
(*                                                                         *)
(* Spec is one invocation, with every input of the model. SpecConcurrent   *)
(* is MaxTasks invocations sharing the event loop, the random generator    *)
(* and the disk, with the inputs of ConcurrentRoutes and ConcurrentCalls.  *)
(***************************************************************************)
TaskIds == DOMAIN tasks

NoHandle == [owner |-> 0, part |-> 0, path |-> "none"]

IdleTask == [pc |-> "idle", route |-> "none", phrase |-> NoPhrase,
             source |-> "none", i |-> 0, words |-> <<>>, path |-> "none",
             handle |-> NoHandle,
             draws |-> <<>>, form |-> <<>>,
             result |-> NoResult, response |-> NoResponse, error |-> "none"]

InitWith(ids) ==
    /\ tasks = [t \in ids |-> IdleTask]
    /\ running = 0
    /\ open_files = {}
    /\ stream = <<>>

SingleTask == {1}
ConcurrentTasks == 1..MaxTasks

Init == InitWith(SingleTask)

InitConcurrent == InitWith(ConcurrentTasks)

\* A variant in which reading a word-list file is awaited as well.
SuspendsOnFiles(pc) == pc \in {"await_post", "await_text", "await_close", "random_line"}

\* The awaits at which a task hands the event loop back: session.post, 
\* response.text() and the exit of the client session, all of them in
\* Watchout4SnakesSource.get_words. VerachellSource.get_words has none.
Suspends(pc) == pc \in {"await_post", "await_text", "await_close"}

Released(pc) == Suspends(pc) \/ pc \in {"done", "failed"}

Scheduled(t) == running = t \/ (running = 0 /\ tasks[t].pc # "idle")

Yield(t, pc) == IF Released(pc) THEN 0 ELSE t

Fail(t, exc) ==
    /\ tasks' = [tasks EXCEPT ![t].pc = "failed", ![t].error = exc]
    /\ running' = 0

\* The handler starts: render_phrase awaits source.get_words(phrase.parts).
\* Task identifiers are handed out in the order the handlers start.
Begin(t, route, phrase, source) ==
    /\ running = 0
    /\ tasks[t].pc = "idle"
    /\ \A u \in TaskIds : u < t => tasks[u].pc # "idle"
    /\ tasks' = [tasks EXCEPT ![t].pc =
                     IF source = Watchout4SnakesSource THEN "post"
                     ELSE IF phrase.parts = <<>> THEN "render" ELSE "get_word",
                   ![t].route = route, ![t].phrase = phrase,
                   ![t].source = source, ![t].i = 1]
    /\ running' = t
    /\ UNCHANGED <<open_files, stream>>

\* GET /<route>: make_response(PHRASE), bound to word_source.
Request(t, route) ==
    /\ route \in DOMAIN Routes
    /\ Begin(t, route, Routes[route], word_source)

\* render_phrase(phrase, source=source), called with another phrase or
\* with the remote source.
CallInputs == (CallerPhrases \X {VerachellSource})
              \cup ((RoutePhrases \cup CallerPhrases) \X {Watchout4SnakesSource})

Call(t, phrase, source) ==
    /\ source \in WordSources
    /\ Begin(t, "none", phrase, source)

ConcurrentRoutes == {"spell", "reaction"}
ConcurrentCalls == {<<SPELL_OBSCURE, VerachellSource>>,
                    <<FEWER_SLOTS, VerachellSource>>,
                    <<SPELL, Watchout4SnakesSource>>}

\* get_word enters random_file: random.choice picks a candidate, which is
\* opened for reading.
LocalOpen(t) ==
    LET task == tasks[t]
        part == task.phrase.parts[task.i]
    IN  /\ Scheduled(t)
        /\ task.pc = "get_word"
        /\ IF Len(FILES[part.pos]) = 0
           THEN /\ Fail(t, "IndexError")
                /\ UNCHANGED <<open_files, stream>>
           ELSE \E c \in 0..(Len(FILES[part.pos]) - 1) :
                  LET path == random_file(part.pos, c)
                      handle == [owner |-> t, part |-> task.i, path |-> path]
                  IN  /\ stream' = Append(stream, t)
                      /\ IF path \notin DOMAIN Disk
                         THEN /\ tasks' = [tasks EXCEPT
                                    ![t].pc = "failed",
                                    ![t].error = "FileNotFoundError",
                                    ![t].path = path,
                                    ![t].draws = Append(@, c)]
                              /\ running' = 0
                              /\ UNCHANGED open_files
                         ELSE /\ tasks' = [tasks EXCEPT
                                    ![t].pc = "random_line",
                                    ![t].path = path,
                                    ![t].handle = handle,
                                    ![t].draws = Append(@, c)]
                              /\ open_files' = open_files \cup {handle}
                              /\ running' = Yield(t, "random_line")

\* The with block of get_word: random_line, strip, title; then the block is
\* left, which closes the file, and get_word returns its word to the
\* comprehension of get_words, or its exception propagates out of get_words.
LocalSelect(t) ==
    LET task == tasks[t]
        part == task.phrase.parts[task.i]
        lines == Disk[task.handle.path]
    IN  /\ Scheduled(t)
        /\ task.pc = "random_line"
        /\ \E d \in DrawSeqs(Len(lines)) :
             LET got == get_word_body(part, lines, d)
                 taken == IF got.exc = "none" THEN d ELSE <<>>
                 pc == IF got.exc # "none" THEN "failed"
                       ELSE IF task.i = Len(task.phrase.parts) THEN "render"
                       ELSE "get_word"
             IN  /\ tasks' = [tasks EXCEPT
                        ![t].pc = pc,
                        ![t].handle = NoHandle,
                        ![t].error = CoroutineError(got.exc),
                        ![t].draws = @ \o taken,
                        ![t].words = IF got.exc # "none" THEN @
                                     ELSE Append(@, got.word),
                        ![t].i = IF pc = "get_word" THEN @ + 1 ELSE @]
                 /\ stream' = stream \o [k \in 1..Len(taken) |-> t]
                 /\ open_files' = random_file_exit(open_files, task.handle, got.exc)
                 /\ running' = Yield(t, pc)

\* Watchout4SnakesSource.get_words builds the form and posts it.
RemotePost(t) ==
    /\ Scheduled(t)
    /\ tasks[t].pc = "post"
    /\ tasks' = [tasks EXCEPT ![t].pc = "await_post",
                              ![t].form = form_data(tasks[t].phrase.parts)]
    /\ running' = Yield(t, "await_post")
    /\ UNCHANGED <<open_files, stream>>

\* The response arrives (whatever its status: it is not inspected).
RemoteResponse(t) ==
    /\ Scheduled(t)
    /\ tasks[t].pc = "await_post"
    /\ tasks' = [tasks EXCEPT ![t].pc = "await_text"]
    /\ running' = Yield(t, "await_text")
    /\ UNCHANGED <<open_files, stream>>

\* The body arrives and is split into the words.
RemoteText(t, body) ==
    /\ Scheduled(t)
    /\ tasks[t].pc = "await_text"
    /\ tasks' = [tasks EXCEPT ![t].pc = "await_close",
                              ![t].words = remote_words(body)]
    /\ running' = Yield(t, "await_close")
    /\ UNCHANGED <<open_files, stream>>

\* The client session is closed and get_words returns.
RemoteClose(t) ==
    /\ Scheduled(t)
    /\ tasks[t].pc = "await_close"
    /\ tasks' = [tasks EXCEPT ![t].pc = "render"]
    /\ running' = Yield(t, "render")
    /\ UNCHANGED <<open_files, stream>>

\* The network fails while the task awaits the response or its body.
RemoteError(t) ==
    /\ Scheduled(t)
    /\ tasks[t].pc \in {"await_post", "await_text"}
    /\ Fail(t, "ClientError")
    /\ UNCHANGED <<open_files, stream>>

\* render_phrase after get_words has returned, and make_response after it.
Render(t) ==
    LET task == tasks[t]
        got == render_phrase(task.phrase, task.words)
    IN  /\ Scheduled(t)
        /\ task.pc = "render"
        /\ tasks' = [tasks EXCEPT
               ![t].pc = IF got.exc = "none" THEN "done" ELSE "failed",
               ![t].error = got.exc,
               ![t].result = got.result,
               ![t].response = IF got.exc = "none" /\ task.route # "none"
                               THEN make_response(task.phrase, got.result)
                               ELSE NoResponse]
        /\ running' = 0
        /\ UNCHANGED <<open_files, stream>>

Next ==
    \E t \in SingleTask :
        \/ \E route \in DOMAIN Routes : Request(t, route)
        \/ \E call \in CallInputs : Call(t, call[1], call[2])
        \/ LocalOpen(t)
        \/ LocalSelect(t)
        \/ RemotePost(t)
        \/ RemoteResponse(t)
        \/ \E body \in RemoteBodies : RemoteText(t, body)
        \/ RemoteClose(t)
        \/ RemoteError(t)
        \/ Render(t)

NextConcurrent ==
    \E t \in ConcurrentTasks :
        \/ \E route \in ConcurrentRoutes : Request(t, route)
        \/ \E call \in ConcurrentCalls : Call(t, call[1], call[2])
        \/ LocalOpen(t)
        \/ LocalSelect(t)
        \/ RemotePost(t)
        \/ RemoteResponse(t)
        \/ \E body \in RemoteBodies : RemoteText(t, body)
        \/ RemoteClose(t)
        \/ RemoteError(t)
        \/ Render(t)

Spec == Init /\ [][Next]_vars

SpecConcurrent == InitConcurrent /\ [][NextConcurrent]_vars


(***************************************************************************)
(* The claims.                                                             *)
(***************************************************************************)
Local(t) == tasks[t].source = VerachellSource
Remote(t) == tasks[t].source = Watchout4SnakesSource

RECURSIVE Factorial(_)
Factorial(n) == IF n <= 0 THEN 1 ELSE n * Factorial(n - 1)

\* The number of the field at position k of a template (1 for the first).
FieldNumber(template, k) == Cardinality({m \in 1..k : template[m] = Field})

NumSlots(template) == FieldNumber(template, Len(template))

\* The draws d for which random_line returns line j of the file.
DrawsChoosing(lines, j) ==
    {d \in DrawSeqs(Len(lines)) :
        random_line(lines, d) = [exc |-> "none", line |-> lines[j]]}

\* C1: whenever get_word has opened a file of L >= 1 lines and is about to
\* call random_line on it, the L! equally likely draw sequences r_2..r_L
\* split evenly among the lines: each line is returned for (L-1)! of them.
C1_ReservoirUniform ==
    \A t \in TaskIds :
        tasks[t].pc = "random_line" /\ Disk[tasks[t].path] # <<>> =>
            LET lines == Disk[tasks[t].path]
                L == Len(lines)
            IN  /\ Cardinality(DrawSeqs(L)) = Factorial(L)
                /\ \A j \in 1..L :
                      Cardinality(DrawsChoosing(lines, j)) = Factorial(L - 1)

\* A request for /reaction has returned the last line of the file of
\* MaxLines lines, which takes the draw r_MaxLines = 0.
C1_Witness ==
    \E t \in TaskIds :
        LET lines == Disk[FILES[INTERJECTION][1]]
        IN  /\ tasks[t].pc = "done"
            /\ tasks[t].route = "reaction"
            /\ Len(lines) = MaxLines
            /\ MaxLines >= 3
            /\ tasks[t].draws[Len(tasks[t].draws)] = 0
            /\ tasks[t].words = <<title(strip(lines[MaxLines]))>>

\* C2: when get_words has returned, for either source, the list it
\* returned has as many words as there are parts.
C2_WordCount ==
    \A t \in TaskIds :
        tasks[t].pc \in {"render", "done"} =>
            Len(tasks[t].words) = Len(tasks[t].phrase.parts)

\* C3: a call whose remote response splits into a number of words other
\* than the number of parts never ends with a result: it fails.
C3_MismatchFails ==
    \A t \in TaskIds :
        Remote(t) /\ tasks[t].pc = "done" =>
            Len(tasks[t].words) = Len(tasks[t].phrase.parts)

\* The local source has run the with block of get_word on a file that has
\* no lines.
OnEmptyFile(t) ==
    /\ Local(t)
    /\ tasks[t].path \in DOMAIN Disk
    /\ Disk[tasks[t].path] = <<>>
    /\ tasks[t].pc # "random_line"

\* C4: once the local source has selected a file with no lines, the call
\* has failed with an error: no word was returned for that part, and there
\* is no result and no response, whatever words were selected before.
C4_ConfigErrorFailsFast ==
    \A t \in TaskIds :
        OnEmptyFile(t) =>
            /\ tasks[t].pc = "failed"
            /\ tasks[t].error = "RuntimeError"
            /\ Len(tasks[t].words) = tasks[t].i - 1
            /\ ~tasks[t].result.ok
            /\ ~tasks[t].response.sent

\* A request has failed on an empty file after the words of earlier parts
\* had been selected.
C4_Witness ==
    \E t \in TaskIds :
        /\ OnEmptyFile(t)
        /\ tasks[t].route # "none"
        /\ tasks[t].pc = "failed"
        /\ Len(tasks[t].words) >= 1

\* C5: when the source has returned as many words as there are parts and
\* render_phrase has returned, the k-th field of the template holds the
\* k-th word, title-cased if the k-th part says so and as it is otherwise,
\* every literal piece of the template is kept in its place, and the word
\* list returned (and sent in the response) is the list of the source.
C5_PositionalCorrespondence ==
    \A t \in TaskIds :
        LET task == tasks[t]
            template == task.phrase.template
            parts == task.phrase.parts
        IN  task.pc = "done" /\ Len(task.words) = Len(parts) =>
              /\ task.result.ok
              /\ task.result.words = task.words
              /\ Len(task.result.phrase) = Len(template)
              /\ \A k \in 1..Len(template) :
                    IF template[k] = Field
                    THEN LET j == FieldNumber(template, k)
                         IN  task.result.phrase[k] =
                                IF parts[j].title THEN title(task.words[j])
                                ELSE task.words[j]
                    ELSE task.result.phrase[k] = <<template[k]>>
              /\ task.route # "none" =>
                    /\ task.response.sent
                    /\ task.response.phrase = task.result.phrase
                    /\ task.response.words = task.words

\* /bbeg has been rendered: four fields, the third of a part whose title
\* flag is unset and whose word title-casing would change.
C5_Witness ==
    \E t \in TaskIds :
        /\ tasks[t].pc = "done"
        /\ tasks[t].route = "bbeg"
        /\ Len(tasks[t].words) = 4
        /\ title(tasks[t].words[3]) # tasks[t].words[3]
        /\ tasks[t].result.phrase[6] = tasks[t].words[3]

\* C6: a word-list file is open only while the task that opened it is
\* inside the with block of get_word, and a task holds at most one: so no
\* file is open once get_word has returned or raised.
C6_FileHandlesScoped ==
    /\ \A h \in open_files :
          /\ h.owner \in TaskIds
          /\ tasks[h.owner].pc = "random_line"
          /\ tasks[h.owner].handle = h
    /\ \A t \in TaskIds : Cardinality({h \in open_files : h.owner = t}) <= 1

\* One call has failed on an empty file after opening two files, another
\* has completed after opening two, and no file is open.
C6_Witness ==
    \E t, u \in TaskIds :
        /\ t # u
        /\ Local(t) /\ Local(u)
        /\ tasks[t].pc = "failed" /\ tasks[t].error = "RuntimeError"
        /\ Len(tasks[t].draws) >= 2
        /\ tasks[u].pc = "done" /\ Len(tasks[u].words) = 2
        /\ open_files = {}

\* C7: render_phrase returns a rendered string only if the template has
\* as many fields as the words it is given.
C7_TemplateMismatchFails ==
    \A t \in TaskIds :
        tasks[t].pc = "done" =>
            NumSlots(tasks[t].phrase.template) =
                Len(cased_words(tasks[t].phrase.parts, tasks[t].words))

\* What get_words did in a call that has left it.
Outcome(t) ==
    IF tasks[t].pc = "failed" THEN <<"raised", tasks[t].error>>
    ELSE <<"returned", tasks[t].words>>

LeftGetWords(t) == tasks[t].pc \in {"render", "done", "failed"}

SameButObscurity(p, q) ==
    /\ Len(p) = Len(q)
    /\ \A k \in 1..Len(p) : p[k].pos = q[k].pos /\ p[k].title = q[k].title

\* C8: two calls of the local source on parts that differ at most in their
\* obscurity, which took the same draws, did the same: they returned the
\* same words or raised the same error.
C8_Deterministic ==
    \A t, u \in TaskIds :
        /\ Local(t) /\ Local(u)
        /\ LeftGetWords(t) /\ LeftGetWords(u)
        /\ SameButObscurity(tasks[t].phrase.parts, tasks[u].phrase.parts)
        /\ tasks[t].draws = tasks[u].draws
        => Outcome(t) = Outcome(u)

\* Two calls on parts of different obscurity took the same draws, one of
\* them a line draw, and both returned.
C8_Witness ==
    \E t, u \in TaskIds :
        /\ t # u
        /\ Local(t) /\ Local(u)
        /\ tasks[t].pc = "done" /\ tasks[u].pc = "done"
        /\ tasks[t].phrase.parts # tasks[u].phrase.parts
        /\ SameButObscurity(tasks[t].phrase.parts, tasks[u].phrase.parts)
        /\ tasks[t].draws = tasks[u].draws
        /\ Len(tasks[t].draws) = 3

\* C9: with the local source, every word put into the template is the
\* word at the same position of the word list that is returned.
C9_SecondCasingNoOp ==
    \A t \in TaskIds :
        LET task == tasks[t]
            template == task.phrase.template
        IN  Local(t) /\ task.pc = "done" =>
              \A k \in 1..Len(template) :
                  template[k] = Field =>
                      task.result.phrase[k] =
                          task.result.words[FieldNumber(template, k)]

\* The draws of each task are consecutive in the stream of the generator:
\* a draw that is not the last one of its task is followed by a draw of the
\* same task.
Consecutive ==
    \A a, c \in 1..Len(stream) :
        a < c /\ stream[a] = stream[c] => stream[a + 1] = stream[a]

\* What the call of task t does alone on the draws it took.
Alone(t) == get_words(tasks[t].phrase.parts, tasks[t].draws)

\* C10: with the local source, a task that is inside get_words holds the
\* event loop, so that its draws are consecutive in the stream of the
\* shared generator, all open files belong to one task, and what it
\* returns is what get_words returns alone on the draws the task took.
C10_RequestsIndependent ==
    /\ \A t \in TaskIds :
          Local(t) /\ tasks[t].pc \in {"get_word", "random_line"} => running = t
    /\ Consecutive
    /\ \A g, h \in open_files : g.owner = h.owner
    /\ \A t \in TaskIds :
          Local(t) /\ LeftGetWords(t) =>
              LET alone == Alone(t)
              IN  /\ Len(stream) >= Len(tasks[t].draws)
                  /\ IF alone.exc = "none"
                     THEN /\ tasks[t].words = alone.words
                          /\ tasks[t].pc = "done" =>
                                tasks[t].result =
                                    render_phrase(tasks[t].phrase, alone.words).result
                     ELSE /\ tasks[t].pc = "failed"
                          /\ tasks[t].error = alone.exc

\* Two local calls have completed, one after the other, each on three
\* draws of the shared generator.
C10_Witness ==
    \E t, u \in TaskIds :
        /\ t # u
        /\ Local(t) /\ Local(u)
        /\ tasks[t].pc = "done" /\ tasks[u].pc = "done"
        /\ Len(tasks[t].draws) = 3 /\ Len(tasks[u].draws) = 3
        /\ Len(stream) = 6

====
